---- MODULE Spec2Model ----
(***************************************************************************)
(* Model of src/server.py: the two FastMCP tools (run_command,             *)
(* hello_world) and the Starlette wiring that serves them over SSE on one  *)
(* asyncio event loop (uvicorn.run).                                       *)
(*                                                                         *)
(* What server.py itself decides is modelled: the tool bodies, the         *)
(* try/except of run_command, the fact that subprocess.run is a            *)
(* synchronous call made from a coroutine, and the handle_sse context      *)
(* (enter connect_sse, run the server on the two streams, leave).  The     *)
(* internals of the mcp package (session identifiers, the lookup done by   *)
(* handle_post_message, the initialization handshake, error frames for     *)
(* unknown tools) are not in the repository and are not modelled; a POST   *)
(* is modelled only for a session whose handle_sse context is open.        *)
(***************************************************************************)
EXTENDS Naturals, Sequences, FiniteSets

\* ---------------------------------------------------------------- bounds
MaxSessions == 2
MaxInbox == 1

Sessions == 1..MaxSessions
\* No coroutine: a value that is no session.
NoTask == CHOOSE n \in 0..MaxSessions : n \notin Sessions

\* ---------------------------------------------------------------- inputs
\* The command string is not part of the state: the code logs it and passes
\* it to the shell unexamined, and what the shell then does (the exit code,
\* the two output texts, or a failure to spawn) is drawn below.

\* Texts a child process may leave on stdout / stderr (text=True: str).
Texts == {"", "hi", "oops"}

\* Exit codes a child may end with.
ExitCodes == {0, 2}

\* Exceptions subprocess.run raises when the shell cannot be spawned.
SpawnErrors ==
    { [type |-> "FileNotFoundError",
       msg  |-> "[Errno 2] No such file or directory: 'mcp'"],
      [type |-> "PermissionError",
       msg  |-> "[Errno 13] Permission denied: 'mcp'"],
      [type |-> "BlockingIOError",
       msg  |-> "[Errno 11] Resource temporarily unavailable"],
      [type |-> "ValueError",
       msg  |-> "embedded null byte"] }

\* The classes above are all subclasses of Exception (OSError, ValueError).
ExceptionSubclasses ==
    {"FileNotFoundError", "PermissionError", "BlockingIOError", "OSError",
     "ValueError", "SubprocessError", "CalledProcessError", "TimeoutExpired"}

\* ---------------------------------------------------------------- tools
\* The tools registered with @mcp.tool().
Tools == {"run_command", "hello_world"}

\* A message on read_stream: a call of one of the tools.
Messages == {[tool |-> t] : t \in Tools}

NoProc == [kind |-> "none"]
Running == [kind |-> "running"]
Completed(rc, so, se) ==
    [kind |-> "completed", returncode |-> rc, stdout |-> so, stderr |-> se]
Raised(e) == [kind |-> "raised", exc |-> e]

\* Python's `a or b`: a when a is truthy (a non-empty str), else b.
PyOr(a, b) == IF a # "" THEN a ELSE b

\* str(e)
Str(e) == e.msg

\* `except Exception as e` catches e when its class derives from Exception.
\* (variant: `except subprocess.SubprocessError`, which OSError is not)
ExceptOnlySubprocessError(e) ==
    e.type \in {"SubprocessError", "CalledProcessError", "TimeoutExpired"}

ExceptException(e) == e.type \in ExceptionSubclasses

\* `return result.stdout or result.stderr or ""`
\* (variant: the two streams in the other order)
ResultStderrFirst(result) == PyOr(PyOr(result.stderr, result.stdout), "")

ResultText(result) == PyOr(PyOr(result.stdout, result.stderr), "")

\* run_command, given what subprocess.run did: a CompletedProcess or an
\* exception.  The outcome is a normal return of a str, or an exception
\* leaving the coroutine.
run_command(p) ==
    IF p.kind = "completed"
    THEN [kind |-> "return", text |-> ResultText(p)]
    ELSE IF ExceptException(p.exc)
         THEN [kind |-> "return", text |-> Str(p.exc)]
         ELSE [kind |-> "raise", text |-> Str(p.exc)]

hello_world == [kind |-> "return", text |-> "Hello World"]

\* ---------------------------------------------------------------- state
VARIABLES
    sess,      \* per session: "none" | "open" (inside connect_sse) | "closed"
    inbox,     \* per session: messages delivered to read_stream, not yet handled
    blocked,   \* the session whose run_command is inside subprocess.run, or NoTask
    proc,      \* what subprocess.run of the call in progress has done so far
    last       \* the most recent tool call handed back to mcp_server.run

vars == <<sess, inbox, blocked, proc, last>>

NoCall == [session |-> NoTask, tool |-> "", proc |-> NoProc,
           outcome |-> [kind |-> "none", text |-> ""]]

Init ==
    /\ sess = [s \in Sessions |-> "none"]
    /\ inbox = [s \in Sessions |-> <<>>]
    /\ blocked = NoTask
    /\ proc = NoProc
    /\ last = NoCall

\* The event loop thread is free to run a coroutine: no coroutine is inside
\* a synchronous call.  subprocess.run is called without await from an
\* async def, so the thread that runs every coroutine of the process waits
\* in it.
LoopFree == blocked = NoTask

\* ---------------------------------------------------------------- actions
\* GET /sse: handle_sse enters connect_sse and awaits mcp_server.run.
handle_sse_enter(s) ==
    /\ LoopFree
    /\ sess[s] = "none"
    /\ sess' = [sess EXCEPT ![s] = "open"]
    /\ UNCHANGED <<inbox, blocked, proc, last>>

\* mcp_server.run returns (the connection is gone) and the async with block
\* is left; read_stream and write_stream go out of scope.
handle_sse_exit(s) ==
    /\ LoopFree
    /\ sess[s] = "open"
    /\ sess' = [sess EXCEPT ![s] = "closed"]
    /\ inbox' = [inbox EXCEPT ![s] = <<>>]
    /\ UNCHANGED <<blocked, proc, last>>

\* POST /messages/ for an open session: the mounted sse.handle_post_message
\* hands the message to that session's read_stream.
handle_post_message(s, m) ==
    /\ LoopFree
    /\ sess[s] = "open"
    /\ Len(inbox[s]) < MaxInbox
    /\ inbox' = [inbox EXCEPT ![s] = Append(@, m)]
    /\ UNCHANGED <<sess, blocked, proc, last>>

\* mcp_server.run takes the next message of the session and awaits
\* hello_world(), which returns without suspending.
call_hello_world(s) ==
    /\ LoopFree
    /\ sess[s] = "open"
    /\ inbox[s] # <<>>
    /\ Head(inbox[s]).tool = "hello_world"
    /\ inbox' = [inbox EXCEPT ![s] = Tail(@)]
    /\ last' = [session |-> s, tool |-> "hello_world",
                proc |-> NoProc, outcome |-> hello_world]
    /\ UNCHANGED <<sess, blocked, proc>>

\* mcp_server.run takes the next message of the session and awaits
\* run_command(command), which calls subprocess.run: either the shell cannot
\* be spawned (an exception is pending) or the child runs and the thread
\* waits for it.
call_run_command(s) ==
    /\ LoopFree
    /\ sess[s] = "open"
    /\ inbox[s] # <<>>
    /\ Head(inbox[s]).tool = "run_command"
    /\ inbox' = [inbox EXCEPT ![s] = Tail(@)]
    /\ blocked' = s
    /\ \/ proc' = Running
       \/ \E e \in SpawnErrors : proc' = Raised(e)
    /\ UNCHANGED <<sess, last>>

\* The child exits (environment): subprocess.run has its CompletedProcess.
process_exit ==
    /\ blocked # NoTask
    /\ proc = Running
    /\ \E rc \in ExitCodes, so \in Texts, se \in Texts :
          proc' = Completed(rc, so, se)
    /\ UNCHANGED <<sess, inbox, blocked, last>>

\* subprocess.run is over; the rest of run_command runs and the coroutine
\* is done, handing its outcome to mcp_server.run.
run_command_return(s) ==
    /\ blocked = s
    /\ proc.kind \in {"completed", "raised"}
    /\ last' = [session |-> s, tool |-> "run_command",
                proc |-> proc, outcome |-> run_command(proc)]
    /\ blocked' = NoTask
    /\ proc' = NoProc
    /\ UNCHANGED <<sess, inbox>>

Next ==
    \/ \E s \in Sessions : handle_sse_enter(s)
    \/ \E s \in Sessions : handle_sse_exit(s)
    \/ \E s \in Sessions, m \in Messages : handle_post_message(s, m)
    \/ \E s \in Sessions : call_hello_world(s)
    \/ \E s \in Sessions : call_run_command(s)
    \/ process_exit
    \/ \E s \in Sessions : run_command_return(s)

Spec == Init /\ [][Next]_vars

\* ---------------------------------------------------------------- claims

\* C1: for every completed shell command, whatever its exit code,
\* run_command returns the captured stdout when it is non-empty, otherwise
\* the captured stderr when that is non-empty, otherwise the empty string;
\* with both non-empty the result is exactly stdout.
C1_StdoutElseStderr ==
    (last.tool = "run_command" /\ last.proc.kind = "completed") =>
        /\ last.outcome.kind = "return"
        /\ last.proc.stdout # "" => last.outcome.text = last.proc.stdout
        /\ (last.proc.stdout = "" /\ last.proc.stderr # "") =>
               last.outcome.text = last.proc.stderr
        /\ (last.proc.stdout = "" /\ last.proc.stderr = "") =>
               last.outcome.text = ""

\* A command that failed (non-zero exit code) and wrote different texts to
\* both streams has returned, and the result is its stdout.
C1_Witness ==
    /\ last.tool = "run_command"
    /\ last.proc.kind = "completed"
    /\ last.proc.returncode # 0
    /\ last.proc.stdout # ""
    /\ last.proc.stderr # ""
    /\ last.proc.stdout # last.proc.stderr
    /\ last.outcome.text = last.proc.stdout

\* C6: when spawning the shell fails, run_command catches the exception and
\* returns its textual description as an ordinary str result (no exception
\* leaves the coroutine), and the step leaves the session open.
C6_SpawnFailureReturned ==
    [][\A s \in Sessions :
          (blocked = s /\ proc.kind = "raised" /\ blocked' = NoTask) =>
              /\ last'.session = s
              /\ last'.outcome = [kind |-> "return", text |-> Str(proc.exc)]
              /\ sess[s] = "open"
              /\ sess'[s] = "open"]_vars

\* A spawn failure has been returned as a str and the session is still open.
C6_Witness ==
    /\ last.tool = "run_command"
    /\ last.proc.kind = "raised"
    /\ last.outcome.kind = "return"
    /\ last.outcome.text = last.proc.exc.msg
    /\ blocked = NoTask
    /\ sess[last.session] = "open"

\* C8: while one session's run_command waits for its shell process, only
\* that session is blocked: a new GET /sse can be accepted, a POST for any
\* open session can be handled, and every other session whose read_stream
\* holds a message can handle it.
C8_OnlyOwnerBlocked ==
    \A s \in Sessions :
        (blocked = s /\ proc = Running) =>
            /\ \A t \in Sessions :
                   sess[t] = "none" => ENABLED handle_sse_enter(t)
            /\ \A t \in Sessions, m \in Messages :
                   (sess[t] = "open" /\ Len(inbox[t]) < MaxInbox) =>
                       ENABLED handle_post_message(t, m)
            /\ \A t \in Sessions \ {s} :
                   (sess[t] = "open" /\ inbox[t] # <<>>) =>
                       ENABLED (call_hello_world(t) \/ call_run_command(t))

====
